---- MODULE Spec2Model ----
(***************************************************************************)
(* gps.py: GPS_TABLE, PHOTO_QUEUE, the write/read workers and main().      *)
(*                                                                         *)
(* Python values are modelled with their dynamic type: a number is         *)
(* Num(n), a string is Str(s).  File paths are sequences of one-character  *)
(* strings so that lower(), endswith() and "in" are computed.  CSV cells   *)
(* are strings; float() and str() on them are the tables FloatOf and       *)
(* FloatRepr.  float("inf") is the number Inf, larger than every finite    *)
(* number of the model.  The threads of the pool are told apart by         *)
(* nothing in the program: the pool is the bag of their frames.            *)
(***************************************************************************)
EXTENDS Integers, Sequences, FiniteSets, Bags, TLC

\* ------------------------------------------------------------------------
\* Bounds of the model
\* ------------------------------------------------------------------------
MaxThreads == 2   \* --threads is drawn from 0..MaxThreads
MaxRows    == 2   \* the CSV store holds at most MaxRows rows at startup

\* ------------------------------------------------------------------------
\* Python values
\* ------------------------------------------------------------------------
Inf == 1000000    \* float("inf")

Num(n) == [tag |-> "num", n |-> n, s |-> ""]
Str(s) == [tag |-> "str", n |-> 0, s |-> s]

\* bool(v): a number is true unless it is zero, a string unless it is empty
Truthy(v) == IF v.tag = "num" THEN v.n # 0 ELSE v.s # ""

Abs(x) == IF x < 0 THEN -x ELSE x

\* abs(a - b) on floats, b possibly infinite
AbsDiff(a, b) == IF a = Inf \/ b = Inf THEN Inf ELSE Abs(a - b)

\* float(s) for the strings of the model; a string outside the table raises
\* ValueError
FloatOf ==
    ("0" :> 0) @@ ("0.0" :> 0) @@ ("7200" :> 7200) @@ ("7200.0" :> 7200) @@
    ("3599.0" :> 3599) @@ ("3600.0" :> 3600) @@ ("inf" :> Inf) @@
    ("35.0" :> 35) @@ ("139.0" :> 139) @@ ("-5.0" :> -5) @@ ("10" :> 10) @@
    ("10.0" :> 10)

CanFloat(v) == v.tag = "num" \/ v.s \in DOMAIN FloatOf
ToFloat(v)  == IF v.tag = "num" THEN v.n ELSE FloatOf[v.s]

\* str(x) of a float
FloatRepr ==
    (0 :> "0.0") @@ (3599 :> "3599.0") @@ (3600 :> "3600.0") @@
    (7200 :> "7200.0") @@ (Inf :> "inf") @@ (35 :> "35.0") @@
    (139 :> "139.0") @@ (-5 :> "-5.0") @@ (10 :> "10.0")

\* what csv.writer writes for one field
CellOf(v) == IF v.tag = "num" THEN FloatRepr[v.n] ELSE v.s

\* ------------------------------------------------------------------------
\* Strings as character sequences
\* ------------------------------------------------------------------------
LowerOf ==
    ("A" :> "a") @@ ("B" :> "b") @@ ("C" :> "c") @@ ("D" :> "d") @@
    ("E" :> "e") @@ ("F" :> "f") @@ ("G" :> "g") @@ ("H" :> "h") @@
    ("I" :> "i") @@ ("J" :> "j") @@ ("K" :> "k") @@ ("L" :> "l") @@
    ("M" :> "m") @@ ("N" :> "n") @@ ("O" :> "o") @@ ("P" :> "p") @@
    ("Q" :> "q") @@ ("R" :> "r") @@ ("S" :> "s") @@ ("T" :> "t") @@
    ("U" :> "u") @@ ("V" :> "v") @@ ("W" :> "w") @@ ("X" :> "x") @@
    ("Y" :> "y") @@ ("Z" :> "z")

\* str.lower()
Lower(p) == [i \in 1..Len(p) |-> IF p[i] \in DOMAIN LowerOf THEN LowerOf[p[i]] ELSE p[i]]

\* str.endswith(suffix)
EndsWith(p, suffix) ==
    /\ Len(suffix) <= Len(p)
    /\ SubSeq(p, Len(p) - Len(suffix) + 1, Len(p)) = suffix

\* str.endswith(tuple of suffixes)
EndsWithAny(p, suffixes) == \E suffix \in suffixes : EndsWith(p, suffix)

\* sub in p
Contains(p, sub) ==
    \E i \in 1..(Len(p) - Len(sub) + 1) : SubSeq(p, i, i + Len(sub) - 1) = sub

Range(f) == {f[i] : i \in DOMAIN f}

\* the orders in which a set can be iterated
Orders(S) == {o \in [1..Cardinality(S) -> S] : Range(o) = S}

\* ------------------------------------------------------------------------
\* Program constants
\* ------------------------------------------------------------------------
\* EXT, the photo file formats
EXT ==
    {<<".", "j", "p", "g">>,
     <<".", "j", "p", "e", "g">>,
     <<".", "p", "n", "g">>,
     <<".", "t", "i", "f">>,
     <<".", "t", "i", "f", "f">>,
     <<".", "r", "a", "w">>,
     <<".", "c", "r", "2">>,
     <<".", "a", "r", "w">>,
     <<".", "h", "i", "f">>,
     <<".", "d", "n", "g">>,
     <<".", "n", "e", "f">>}

CSV_EXT   == <<".", "c", "s", "v">>
THUMB     == <<"t", "h", "u", "m", "b">>
THRESHOLD == 3600   \* seconds

\* ------------------------------------------------------------------------
\* The inputs of a run: command line, file system, photo metadata, CSV store
\* ------------------------------------------------------------------------
P_TABLE == <<"g", ".", "C", "S", "V">>
P_DIR   == <<"c", "s", "v">>
P_A     == <<"c", "s", "v", "/", "a", ".", "J", "P", "G">>
P_B     == <<"c", "s", "v", "/", "b", ".", "p", "n", "g">>
P_THUMB == <<"c", "s", "v", "/", "T", "h", "u", "m", "b", ".", "j", "p", "g">>
P_TXT   == <<"c", "s", "v", "/", "n", ".", "t", "x", "t">>

ArgValues == {P_TABLE, P_DIR, P_A}

\* os.path.isfile / os.path.isdir, and the order in which os.walk yields the
\* files of the directory
IsFile(p) == p \in {P_TABLE, P_A, P_B, P_THUMB, P_TXT}
IsDir(p)  == p = P_DIR
WalkOrder == <<P_A, P_THUMB, P_TXT, P_B>>

\* the files with EXIF metadata
Photos == {P_A, P_B}

\* what exiftool finds in a photo: ok = FALSE stands for a file without a
\* parsable EXIF:DateTimeOriginal (or on which the tool fails); an absent GPS
\* tag reads as "" (the default of meta.get)
Meta(ok, ts, lat, lon, alt) ==
    [ok |-> ok, ts |-> ts, lat |-> lat, lon |-> lon, alt |-> alt,
     latRef |-> "", lonRef |-> ""]

Metas ==
    {Meta(FALSE, 0, Str(""), Str(""), Str("")),
     Meta(TRUE, 7200, Str(""), Str(""), Str("")),
     Meta(TRUE, 3599, Num(35), Str(""), Str("")),
     Meta(TRUE, 3600, Num(35), Num(139), Num(10)),
     Meta(TRUE, 3599, Num(-5), Num(139), Str("")),
     Meta(TRUE, 3600, Num(0), Num(139), Num(10)),
     Meta(TRUE, 0, Num(35), Num(139), Num(10))}

\* rows a CSV store may hold
Rows ==
    <<<<"0", "35.0", "139.0", "10">>,
      <<"timestamp", "latitude", "longitude", "altitude">>,
      <<"7200", "-5.0", "0.0", "">>,
      <<"7200.0", "", "139.0", "10">>,
      <<"inf", "35.0", "139.0", "10">>>>

\* the stores of the model: up to MaxRows rows, a row possibly repeated, in
\* the order of Rows.  The order of the rows of the file reaches the program
\* only through the iteration order of set(GPS_TABLE), which LoadGpsCsv and
\* WriteGpsCsv leave free
Stores ==
    LET picks == UNION {[1..n -> 1..Len(Rows)] : n \in 0..MaxRows}
        inOrder(x) == \A i \in 1..(Len(x) - 1) : x[i] <= x[i + 1]
    IN  {[i \in 1..Len(x) |-> Rows[x[i]]] : x \in {y \in picks : inOrder(y)}}

\* ------------------------------------------------------------------------
\* Functions of gps.py
\* ------------------------------------------------------------------------
\* load_gps_csv: the row parses when float(row[0]) and row[1..3] raise nothing
RowParses(row) == Len(row) >= 4 /\ row[1] \in DOMAIN FloatOf

\* (float(row[0]), row[1], row[2], row[3])
ParseRow(row) == <<FloatOf[row[1]], Str(row[2]), Str(row[3]), Str(row[4])>>

\* the list GPS_TABLE after the loop of load_gps_csv: unparsable rows skipped
RECURSIVE LoadRows(_, _)

\* the loop with break in place of continue
LoadRowsBreak(rows, table) ==
    IF rows = <<>> \/ ~RowParses(Head(rows)) THEN table
    ELSE LoadRows(Tail(rows), Append(table, ParseRow(Head(rows))))

LoadRows(rows, table) ==
    IF rows = <<>> THEN table
    ELSE LoadRows(Tail(rows),
                  IF RowParses(Head(rows))
                  THEN Append(table, ParseRow(Head(rows)))
                  ELSE table)

\* csv.writer.writerow(row)
FormatRow(row) == <<FloatRepr[row[1]], CellOf(row[2]), CellOf(row[3]), CellOf(row[4])>>

\* the tuple whatever happened: read_photo_gps without its try / except
ReadPhotoGpsUnchecked(meta) == <<meta.ts, meta.lat, meta.lon, meta.alt>>

\* read_photo_gps: (timestamp, lat, lon, alt), or () when anything raised
ReadPhotoGps(meta) ==
    IF meta.ok THEN <<meta.ts, meta.lat, meta.lon, meta.alt>> ELSE <<>>

\* the comparison with <= in place of <
CloserOrEqual(time_diff, min_diff) == time_diff <= min_diff

\* get_closest_gps_row: "if time_diff < min_diff"
Closer(time_diff, min_diff) == time_diff < min_diff

\* get_closest_gps_row: the loop over GPS_TABLE from its i-th row on
RECURSIVE ScanGpsTable(_, _, _, _, _)
ScanGpsTable(timestamp, table, i, min_diff, closest_gps_row) ==
    IF i > Len(table) THEN <<min_diff, closest_gps_row>>
    ELSE LET time_diff == AbsDiff(timestamp, table[i][1])
         IN  IF Closer(time_diff, min_diff)
             THEN ScanGpsTable(timestamp, table, i + 1, time_diff, table[i])
             ELSE ScanGpsTable(timestamp, table, i + 1, min_diff, closest_gps_row)

\* get_closest_gps_row(timestamp) over the table: (min_diff, closest_gps_row)
GetClosestGpsRow(timestamp, table) == ScanGpsTable(timestamp, table, 1, Inf, <<>>)

\* write_photo_gps: "if not exif_row or (exif_row[1] and exif_row[2]): return"
SkipsPhoto(exif_row) ==
    exif_row = <<>> \/ (Truthy(exif_row[2]) /\ Truthy(exif_row[3]))

\* write_photo_gps: "if min_diff > 3600"
TooFar(min_diff) == min_diff > THRESHOLD

\* write_photo_gps: "N" if float(lat) > 0 else "S"
LatRef(lat) == IF ToFloat(lat) > 0 THEN "N" ELSE "S"

\* the reference with >= in place of >
LonRefFromZero(lon) == IF ToFloat(lon) >= 0 THEN "E" ELSE "W"

\* write_photo_gps: "E" if float(lon) > 0 else "W"
LonRef(lon) == IF ToFloat(lon) > 0 THEN "E" ELSE "W"

\* write_photo_gps: the tags handed to set_tags
TagsOf(gps_row) ==
    [GPSLatitude     |-> gps_row[2],
     GPSLongitude    |-> gps_row[3],
     GPSAltitude     |-> gps_row[4],
     GPSLatitudeRef  |-> LatRef(gps_row[2]),
     GPSLongitudeRef |-> LonRef(gps_row[3])]

\* write_photo_gps: params=["-P", "-overwrite_original" if OVERWRITE else ""]
ParamsOf(flag) == <<"-P", IF flag THEN "-overwrite_original" ELSE "">>

\* read_worker: "if exif_row and exif_row[0] and exif_row[1] and exif_row[2]"
Harvests(exif_row) ==
    /\ exif_row # <<>>
    /\ exif_row[1] # 0
    /\ Truthy(exif_row[2])
    /\ Truthy(exif_row[3])

\* the tests on the path as given, without lower()
EligibleExactCase(photo_path) ==
    /\ EndsWithAny(photo_path, EXT)
    /\ ~Contains(photo_path, THUMB)

\* main.process_file: the file is put on the queue
Eligible(photo_path) ==
    /\ EndsWithAny(Lower(photo_path), EXT)
    /\ ~Contains(Lower(photo_path), THUMB)

\* main.loop_file: the paths put on PHOTO_QUEUE, in order
LoopFile(photos_path) ==
    IF IsFile(photos_path)
    THEN IF Eligible(photos_path) THEN <<photos_path>> ELSE <<>>
    ELSE IF IsDir(photos_path)
         THEN SelectSeq(WalkOrder, Eligible)
         ELSE <<>>

\* the test without lower()
IsCsvExactCase(arg) == EndsWith(arg, CSV_EXT)

\* main: arg.lower().endswith(".csv")
IsCsv(arg) == EndsWith(Lower(arg), CSV_EXT)

\* main: the branch of "if arg1... elif arg2... else"
Branch(a1, a2) ==
    IF IsCsv(a1) THEN "INJECT"
    ELSE IF IsCsv(a2) THEN "HARVEST"
    ELSE "UNRECOGNIZED"

\* ------------------------------------------------------------------------
\* State
\* ------------------------------------------------------------------------
VARIABLES
    arg1, arg2, overwrite, threads, \* the command line
    store,              \* the rows of the CSV file
    exif,               \* the metadata of each photo file
    backup,             \* the photos of which exiftool kept an _original copy
    initial,            \* store and exif as they were before the run
    GPS_TABLE,          \* the module's list / set of GPS rows
    PHOTO_QUEUE,        \* the paths in the queue
    unfinished_tasks,   \* the queue's count of put() not yet task_done()
    OVERWRITE,          \* the module's flag
    main_OVERWRITE,     \* the name OVERWRITE local to main()
    main_pc,            \* where main() is
    mode,               \* the branch main() took
    thread_list,        \* the number of threads main() has started
    pool,               \* the bag of the frames of the started threads
    rec                 \* per photo, the calls made for it

vars ==
    <<arg1, arg2, overwrite, threads, store, exif, backup, initial, GPS_TABLE,
      PHOTO_QUEUE, unfinished_tasks, OVERWRITE, main_OVERWRITE, main_pc, mode,
      thread_list, pool, rec>>

inputs  == <<arg1, arg2, overwrite, threads, initial>>
files   == <<store, exif, backup>>
queue   == <<PHOTO_QUEUE, unfinished_tasks>>

\* the frame of a worker thread: where it is, the path it holds, whether an
\* exception is propagating in it
Frame(pc, photo_path, raised) ==
    [pc |-> pc, photo_path |-> photo_path, raised |-> raised]

\* the pool once one thread has gone from frame t to frame u
Moved(t, u) == (pool (-) SetToBag({t})) (+) SetToBag({u})

\* the frames of the pool
Threads == BagToSet(pool)

NoCalls ==
    [taken |-> 0, reads |-> 0, lookups |-> <<>>, geocodes |-> 0,
     writes |-> <<>>, appends |-> 0, done |-> 0]

Init ==
    /\ arg1 \in ArgValues
    /\ arg2 \in ArgValues
    /\ overwrite \in BOOLEAN
    /\ threads \in 0..MaxThreads
    /\ store \in Stores
    /\ exif \in [Photos -> Metas]
    /\ backup = {}
    /\ initial = [store |-> store, exif |-> exif]
    /\ GPS_TABLE = <<>>
    /\ PHOTO_QUEUE = <<>>
    /\ unfinished_tasks = 0
    /\ OVERWRITE = FALSE
    /\ main_OVERWRITE = FALSE
    /\ main_pc = "start"
    /\ mode = "NONE"
    /\ thread_list = 0
    /\ pool = EmptyBag
    /\ rec = [p \in Photos |-> NoCalls]

\* ------------------------------------------------------------------------
\* main()
\* ------------------------------------------------------------------------
\* "OVERWRITE = overwrite" binds a name local to main(); then the if / elif
Start ==
    /\ main_pc = "start"
    /\ main_OVERWRITE' = overwrite
    /\ mode' = Branch(arg1, arg2)
    /\ main_pc' = CASE mode' = "INJECT"  -> "load_gps_csv"
                    [] mode' = "HARVEST" -> "loop_file"
                    [] OTHER             -> "return"
    /\ UNCHANGED <<inputs, files, queue, pool, GPS_TABLE, OVERWRITE,
                   thread_list, rec>>

\* the else branch: return
Return ==
    /\ main_pc = "return"
    /\ main_pc' = "done"
    /\ UNCHANGED <<inputs, files, queue, pool, GPS_TABLE, OVERWRITE,
                   main_OVERWRITE, mode, thread_list, rec>>

\* load_gps_csv(arg1): append the parsable rows, then GPS_TABLE = set(GPS_TABLE)
LoadGpsCsv ==
    /\ main_pc = "load_gps_csv"
    /\ \E order \in Orders(Range(LoadRows(store, GPS_TABLE))) :
           GPS_TABLE' = order
    /\ main_pc' = "loop_file"
    /\ UNCHANGED <<inputs, files, queue, pool, OVERWRITE, main_OVERWRITE,
                   mode, thread_list, rec>>

\* loop_file(photos_path)
LoopFileStep ==
    /\ main_pc = "loop_file"
    /\ LET photos_path == IF mode = "INJECT" THEN arg2 ELSE arg1
           found == LoopFile(photos_path)
       IN  /\ PHOTO_QUEUE' = PHOTO_QUEUE \o found
           /\ unfinished_tasks' = unfinished_tasks + Len(found)
    /\ main_pc' = IF threads = 0 THEN "queue_join" ELSE "spawn"
    /\ UNCHANGED <<inputs, files, pool, GPS_TABLE, OVERWRITE,
                   main_OVERWRITE, mode, thread_list, rec>>

\* one turn of "for _ in range(threads)": t.start(); thread_list.append(t)
Spawn ==
    /\ main_pc = "spawn"
    /\ pool' = pool (+) SetToBag({Frame("get", <<>>, FALSE)})
    /\ thread_list' = thread_list + 1
    /\ main_pc' = IF thread_list' = threads THEN "queue_join" ELSE "spawn"
    /\ UNCHANGED <<inputs, files, queue, GPS_TABLE, OVERWRITE,
                   main_OVERWRITE, mode, rec>>

\* PHOTO_QUEUE.join() returns once every put() has had its task_done()
QueueJoin ==
    /\ main_pc = "queue_join"
    /\ unfinished_tasks = 0
    /\ main_pc' = "thread_join"
    /\ UNCHANGED <<inputs, files, queue, pool, GPS_TABLE, OVERWRITE,
                   main_OVERWRITE, mode, thread_list, rec>>

\* the thread has ended: by queue.Empty, or by another exception
Stopped(t) == t.pc \in {"exited", "crashed"}

\* the loop of t.join() left out: main() goes on with threads still running
ThreadsJoinNoWait ==
    /\ main_pc = "thread_join"
    /\ main_pc' = IF mode = "HARVEST" THEN "write_gps_csv" ELSE "done"
    /\ UNCHANGED <<inputs, files, queue, pool, GPS_TABLE, OVERWRITE,
                   main_OVERWRITE, mode, thread_list, rec>>

\* "for t in thread_list: t.join()" returns once every thread has ended
ThreadsJoin ==
    /\ main_pc = "thread_join"
    /\ \A t \in Threads : Stopped(t)
    /\ main_pc' = IF mode = "HARVEST" THEN "write_gps_csv" ELSE "done"
    /\ UNCHANGED <<inputs, files, queue, pool, GPS_TABLE, OVERWRITE,
                   main_OVERWRITE, mode, thread_list, rec>>

\* the rows of the list as it is, without set()
RowsOfList(table) == {table}

\* write_gps_csv: the rows of set(GPS_TABLE), in the set's order
RowsToWrite(table) == Orders(Range(table))

\* write_gps_csv(arg2): GPS_TABLE = set(GPS_TABLE); one row appended per member
WriteGpsCsv ==
    /\ main_pc = "write_gps_csv"
    /\ \E order \in RowsToWrite(GPS_TABLE) :
           /\ GPS_TABLE' = order
           /\ store' = store \o [i \in 1..Len(order) |-> FormatRow(order[i])]
    /\ main_pc' = "done"
    /\ UNCHANGED <<inputs, exif, backup, queue, pool, OVERWRITE,
                   main_OVERWRITE, mode, thread_list, rec>>

\* ------------------------------------------------------------------------
\* write_worker() and read_worker()
\* ------------------------------------------------------------------------
\* the ways a collaborator call (reverse geocoder, exiftool set_tags) can end
Outcomes == {"ok", "error"}

Quiet == [lookups |-> <<>>, geocodes |-> 0, writes |-> <<>>,
          raised |-> FALSE, stored |-> FALSE]

\* write_photo_gps on a photo with metadata meta: the calls it makes, whether
\* it ends by an exception and whether the tags reached the file.  geo and wr
\* are the outcomes of gps_to_address and of set_tags
WritePhotoGps(meta, table, flag, geo, wr) ==
    LET exif_row == ReadPhotoGps(meta)
        found    == GetClosestGpsRow(exif_row[1], table)
        min_diff == found[1]
        gps_row  == found[2]
        looked   == [Quiet EXCEPT !.lookups =
                        <<[timestamp |-> exif_row[1], found |-> found]>>]
        asked    == [looked EXCEPT !.geocodes = 1]
    IN  IF SkipsPhoto(exif_row) THEN Quiet
        ELSE IF gps_row = <<>> THEN looked
        ELSE IF geo = "error" THEN [asked EXCEPT !.raised = TRUE]
        ELSE IF TooFar(min_diff) THEN asked
        ELSE IF ~CanFloat(gps_row[2]) \/ ~CanFloat(gps_row[3])
             THEN [asked EXCEPT !.raised = TRUE]
        ELSE [asked EXCEPT
                 !.writes = <<[tags |-> TagsOf(gps_row), params |-> ParamsOf(flag)]>>,
                 !.raised = (wr = "error"),
                 !.stored = (wr = "ok")]

\* exiftool set_tags on the file
SetTags(meta, tags) ==
    [meta EXCEPT !.lat = tags.GPSLatitude, !.lon = tags.GPSLongitude,
                 !.alt = tags.GPSAltitude, !.latRef = tags.GPSLatitudeRef,
                 !.lonRef = tags.GPSLongitudeRef]

\* PHOTO_QUEUE.get(block=False): a path, or queue.Empty and the worker ends
Get(t) ==
    /\ t.pc = "get"
    /\ IF PHOTO_QUEUE = <<>>
       THEN /\ pool' = Moved(t, [t EXCEPT !.pc = "exited"])
            /\ UNCHANGED <<PHOTO_QUEUE, rec>>
       ELSE LET p == Head(PHOTO_QUEUE)
            IN  /\ PHOTO_QUEUE' = Tail(PHOTO_QUEUE)
                /\ rec' = [rec EXCEPT ![p].taken = @ + 1]
                /\ pool' = Moved(t, [t EXCEPT
                               !.photo_path = p,
                               !.pc = IF mode = "INJECT" THEN "write_photo_gps"
                                                         ELSE "read_photo_gps"])
    /\ UNCHANGED <<inputs, files, unfinished_tasks, GPS_TABLE, OVERWRITE,
                   main_OVERWRITE, main_pc, mode, thread_list>>

\* write_worker: write_photo_gps(photo_path), the collaborator calls ending
\* in one of the given ways
WriteStepWith(t, outcomes) ==
    /\ t.pc = "write_photo_gps"
    /\ \E r \in {WritePhotoGps(exif[t.photo_path], GPS_TABLE, OVERWRITE, geo, wr) :
                   geo \in outcomes, wr \in outcomes} :
         LET p == t.photo_path
         IN  /\ rec' = [rec EXCEPT ![p].reads    = @ + 1,
                                   ![p].lookups  = @ \o r.lookups,
                                   ![p].geocodes = @ + r.geocodes,
                                   ![p].writes   = @ \o r.writes]
             /\ pool' = Moved(t, [t EXCEPT !.pc = "task_done",
                                          !.raised = r.raised])
             /\ IF r.stored
                THEN /\ exif' = [exif EXCEPT ![p] = SetTags(@, r.writes[1].tags)]
                     /\ backup' = IF r.writes[1].params[2] = "-overwrite_original"
                                  THEN backup ELSE backup \cup {p}
                ELSE UNCHANGED <<exif, backup>>
    /\ UNCHANGED <<inputs, store, queue, GPS_TABLE, OVERWRITE,
                   main_OVERWRITE, main_pc, mode, thread_list>>

\* write_worker: write_photo_gps(photo_path)
WriteStep(t) == WriteStepWith(t, Outcomes)

\* read_worker: exif_row = read_photo_gps(photo_path); GPS_TABLE.append
ReadStep(t) ==
    /\ t.pc = "read_photo_gps"
    /\ LET p == t.photo_path
           exif_row == ReadPhotoGps(exif[p])
       IN  IF Harvests(exif_row)
           THEN /\ GPS_TABLE' = Append(GPS_TABLE, exif_row)
                /\ rec' = [rec EXCEPT ![p].reads = @ + 1, ![p].appends = @ + 1]
           ELSE /\ UNCHANGED GPS_TABLE
                /\ rec' = [rec EXCEPT ![p].reads = @ + 1]
    /\ pool' = Moved(t, [t EXCEPT !.pc = "task_done"])
    /\ UNCHANGED <<inputs, files, queue, OVERWRITE,
                   main_OVERWRITE, main_pc, mode, thread_list>>

\* task_done() after the call only when it returned: try without finally
TaskDoneUnlessRaised(t) ==
    /\ t.pc = "task_done"
    /\ unfinished_tasks' = IF t.raised THEN unfinished_tasks ELSE unfinished_tasks - 1
    /\ rec' = [rec EXCEPT ![t.photo_path].done = IF t.raised THEN @ ELSE @ + 1]
    /\ pool' = Moved(t, [t EXCEPT !.pc = IF t.raised THEN "crashed" ELSE "get",
                                 !.photo_path = <<>>])
    /\ UNCHANGED <<inputs, files, PHOTO_QUEUE, GPS_TABLE,
                   OVERWRITE, main_OVERWRITE, main_pc, mode, thread_list>>

\* finally: PHOTO_QUEUE.task_done(); an exception other than queue.Empty then
\* leaves the while loop and ends the thread.  The name photo_path is dead
\* from here on
TaskDone(t) ==
    /\ t.pc = "task_done"
    /\ unfinished_tasks' = unfinished_tasks - 1
    /\ rec' = [rec EXCEPT ![t.photo_path].done = @ + 1]
    /\ pool' = Moved(t, [t EXCEPT !.pc = IF t.raised THEN "crashed" ELSE "get",
                                 !.photo_path = <<>>])
    /\ UNCHANGED <<inputs, files, PHOTO_QUEUE, GPS_TABLE,
                   OVERWRITE, main_OVERWRITE, main_pc, mode, thread_list>>

\* ------------------------------------------------------------------------
\* The run
\* ------------------------------------------------------------------------
Next ==
    \/ Start
    \/ Return
    \/ LoadGpsCsv
    \/ LoopFileStep
    \/ Spawn
    \/ QueueJoin
    \/ ThreadsJoin
    \/ WriteGpsCsv
    \/ \E t \in Threads : Get(t)
    \/ \E t \in Threads : WriteStep(t)
    \/ \E t \in Threads : ReadStep(t)
    \/ \E t \in Threads : TaskDone(t)

Spec == Init /\ [][Next]_vars

\* ------------------------------------------------------------------------
\* The run when the reverse geocoder and set_tags never raise
\* ------------------------------------------------------------------------
WriteStepOk(t) == WriteStepWith(t, {"ok"})

NextReliable ==
    \/ Start
    \/ Return
    \/ LoadGpsCsv
    \/ LoopFileStep
    \/ Spawn
    \/ QueueJoin
    \/ ThreadsJoin
    \/ WriteGpsCsv
    \/ \E t \in Threads : Get(t)
    \/ \E t \in Threads : WriteStepOk(t)
    \/ \E t \in Threads : ReadStep(t)
    \/ \E t \in Threads : TaskDone(t)

SpecReliable == Init /\ [][NextReliable]_vars

\* ------------------------------------------------------------------------
\* load_gps_csv followed by write_gps_csv to a new file
\* ------------------------------------------------------------------------
\* the files load_gps_csv may be given: up to MaxRows + 1 rows in any order,
\* so that an unparsable row can stand between two parsable ones
AnyStores == UNION {[1..n -> Range(Rows)] : n \in 0..(MaxRows + 1)}

InitRoundTrip ==
    /\ arg1 = P_TABLE
    /\ arg2 = P_TABLE
    /\ overwrite = FALSE
    /\ threads = 0
    /\ store \in AnyStores
    /\ exif \in [Photos -> {Meta(FALSE, 0, Str(""), Str(""), Str(""))}]
    /\ backup = {}
    /\ initial = [store |-> store, exif |-> exif]
    /\ GPS_TABLE = <<>>
    /\ PHOTO_QUEUE = <<>>
    /\ unfinished_tasks = 0
    /\ OVERWRITE = FALSE
    /\ main_OVERWRITE = FALSE
    /\ main_pc = "load_gps_csv"
    /\ mode = "NONE"
    /\ thread_list = 0
    /\ pool = EmptyBag
    /\ rec = [p \in Photos |-> NoCalls]

\* write_gps_csv is given a path that does not exist: open(path, "a") makes
\* the file, empty
OpenNewFile ==
    /\ main_pc = "loop_file"
    /\ store' = <<>>
    /\ main_pc' = "write_gps_csv"
    /\ UNCHANGED <<inputs, exif, backup, queue, pool, GPS_TABLE, OVERWRITE,
                   main_OVERWRITE, mode, thread_list, rec>>

NextRoundTrip ==
    \/ LoadGpsCsv
    \/ OpenNewFile
    \/ WriteGpsCsv

RoundTrip == InitRoundTrip /\ [][NextRoundTrip]_vars

\* ------------------------------------------------------------------------
\* Vocabulary of the properties
\* ------------------------------------------------------------------------
\* a tag value that is not the absent / empty value (a numeric zero is present)
Present(v) == v # Str("")

\* the photo had both coordinates before the run
HadGps(p) ==
    /\ initial.exif[p].ok
    /\ Present(initial.exif[p].lat)
    /\ Present(initial.exif[p].lon)

\* the paths main() puts on the queue
Enqueued ==
    IF mode = "INJECT" THEN Range(LoopFile(arg2))
    ELSE IF mode = "HARVEST" THEN Range(LoopFile(arg1))
    ELSE {}

\* the least |timestamp - row.timestamp| over a non-empty table
MinDiff(timestamp, table) ==
    CHOOSE d \in {AbsDiff(timestamp, table[i][1]) : i \in 1..Len(table)} :
        \A j \in 1..Len(table) : d <= AbsDiff(timestamp, table[j][1])

\* ------------------------------------------------------------------------
\* C1: in INJECT mode a photo whose metadata already holds a latitude and a
\* longitude that are present (a numeric zero included) is never handed to
\* set_tags, and its EXIF state stays what it was before the run.
\* Violated: the truth test of write_photo_gps takes a numeric 0 for absent.
\* ------------------------------------------------------------------------
C1_ExistingGpsKept ==
    mode = "INJECT" =>
        \A p \in Photos :
            HadGps(p) => rec[p].writes = <<>> /\ exif[p] = initial.exif[p]

\* ------------------------------------------------------------------------
\* C2: in INJECT mode, for a processed photo whose read succeeded, that lacks
\* GPS, with a non-empty table: no set_tags call when the least time
\* difference is above 3600, exactly one when it is 3600 or less.
\* Violated: an exception of gps_to_address or of float() ends
\* write_photo_gps before set_tags.
\* ------------------------------------------------------------------------
C2_WrittenWithinThreshold ==
    mode = "INJECT" =>
        \A p \in Photos :
            (/\ rec[p].done > 0
             /\ initial.exif[p].ok
             /\ ~HadGps(p)
             /\ GPS_TABLE # <<>>)
            => IF MinDiff(initial.exif[p].ts, GPS_TABLE) > THRESHOLD
               THEN rec[p].writes = <<>>
               ELSE Len(rec[p].writes) = 1

\* ------------------------------------------------------------------------
\* C3: in INJECT mode a failure while processing one photo stays with that
\* photo: its worker takes further tasks, and no worker stops while the
\* queue is non-empty.
\* Violated: write_worker catches queue.Empty only, so any other exception
\* ends the thread after task_done().
\* ------------------------------------------------------------------------
C3_FailureConfined ==
    mode = "INJECT" =>
        \A t \in Threads :
            Stopped(t) => t.pc = "exited" /\ PHOTO_QUEUE = <<>>

\* ------------------------------------------------------------------------
\* C4: with a pool of N >= 1 workers the run always goes on until main() has
\* passed the barrier, joined the workers and ended: a state in which nothing
\* can move is the end of main().
\* Violated: once every worker has ended by an exception with tasks left,
\* PHOTO_QUEUE.join() never returns.
\* ------------------------------------------------------------------------
C4_RunEnds ==
    threads >= 1 => (main_pc = "done" \/ ENABLED Next)

\* ------------------------------------------------------------------------
\* C5 as stated: every lookup over a non-empty table returns a member of the
\* table, its distance, no member being strictly nearer, the first met among
\* the nearest; over an empty table it returns (inf, ()).
\* Violated: a table whose rows all have the timestamp inf is not empty, yet
\* no distance is below the initial inf and the lookup returns (inf, ()).
\* ------------------------------------------------------------------------
\* the lookup returned the first-met nearest member of the table
NearestOf(l, table) ==
    LET min_diff == l.found[1]
        sample   == l.found[2]
    IN  /\ sample \in Range(table)
        /\ min_diff = AbsDiff(l.timestamp, sample[1])
        /\ \A i \in 1..Len(table) : ~(AbsDiff(l.timestamp, table[i][1]) < min_diff)
        /\ \A i, j \in 1..Len(table) :
               (table[j] = sample /\ i < j)
               => AbsDiff(l.timestamp, table[i][1]) # min_diff

AllLookups ==
    UNION {{rec[p].lookups[k] : k \in 1..Len(rec[p].lookups)} : p \in Photos}

C5_NearestOfNonEmpty ==
    \A l \in AllLookups :
        IF GPS_TABLE = <<>> THEN l.found = <<Inf, <<>>>>
        ELSE NearestOf(l, GPS_TABLE)

\* C5 amended, the result: every lookup over a table with at least one row
\* of finite timestamp returns the first-met nearest member and its distance;
\* over an empty table, or one whose rows all have an infinite timestamp, it
\* returns (inf, ()).
C5_Found ==
    \A l \in AllLookups :
        IF \A i \in 1..Len(GPS_TABLE) : GPS_TABLE[i][1] = Inf
        THEN l.found = <<Inf, <<>>>>
        ELSE NearestOf(l, GPS_TABLE)

\* C5 amended, with its frame: the above in every state, and no step of
\* write_photo_gps changes GPS_TABLE
C5_NearestMatch ==
    /\ []C5_Found
    /\ [][(\E t \in Threads : WriteStep(t)) => GPS_TABLE' = GPS_TABLE]_vars

\* C5 witness: a lookup met two rows at the same, least distance and kept
\* the first
C5_Witness ==
    \E l \in AllLookups :
        \E i, j \in 1..Len(GPS_TABLE) :
            /\ i < j
            /\ AbsDiff(l.timestamp, GPS_TABLE[i][1]) = l.found[1]
            /\ AbsDiff(l.timestamp, GPS_TABLE[j][1]) = l.found[1]
            /\ l.found[2] = GPS_TABLE[i]

\* ------------------------------------------------------------------------
\* C6: the tags of every set_tags call are the latitude, longitude and
\* altitude of the nearest row found for the photo's timestamp, with
\* reference "N" when the latitude is above 0 and "S" otherwise, "E" when the
\* longitude is above 0 and "W" otherwise.
\* ------------------------------------------------------------------------
C6_TagsOfNearest ==
    \A p \in Photos :
        \A k \in 1..Len(rec[p].writes) :
            LET tags   == rec[p].writes[k].tags
                l      == rec[p].lookups[1]
                sample == l.found[2]
            IN  /\ l.timestamp = initial.exif[p].ts
                /\ sample \in Range(GPS_TABLE)
                /\ AbsDiff(l.timestamp, sample[1]) = MinDiff(l.timestamp, GPS_TABLE)
                /\ tags.GPSLatitude = sample[2]
                /\ tags.GPSLongitude = sample[3]
                /\ tags.GPSAltitude = sample[4]
                /\ tags.GPSLatitudeRef =
                       IF FloatOf[sample[2].s] > 0 THEN "N" ELSE "S"
                /\ tags.GPSLongitudeRef =
                       IF FloatOf[sample[3].s] > 0 THEN "E" ELSE "W"

\* C6 witness: a photo was written with a longitude of zero and a negative
\* latitude
C6_Witness ==
    \E p \in Photos :
        /\ rec[p].writes # <<>>
        /\ rec[p].writes[1].tags.GPSLongitude = Str("0.0")
        /\ rec[p].writes[1].tags.GPSLongitudeRef = "W"
        /\ rec[p].writes[1].tags.GPSLatitudeRef = "S"

\* ------------------------------------------------------------------------
\* C7: every set_tags call honours --overwrite: it asks to overwrite the
\* original when the option was given and to keep a backup when it was not.
\* Violated: main() assigns a local OVERWRITE; the module's flag read by
\* write_photo_gps stays False.
\* ------------------------------------------------------------------------
C7_OverwriteHonoured ==
    /\ \A p \in Photos :
           \A k \in 1..Len(rec[p].writes) :
               ("-overwrite_original" \in Range(rec[p].writes[k].params)) = overwrite
    /\ overwrite => backup = {}

\* ------------------------------------------------------------------------
\* C8: the mode is chosen once from the two arguments and never changes:
\* INJECT when arg1 ends in ".csv" whatever the case, HARVEST when arg2 does
\* and arg1 does not, UNRECOGNIZED otherwise; an UNRECOGNIZED run loads,
\* enqueues, spawns, writes and persists nothing.
\* ------------------------------------------------------------------------
\* the last four characters of arg are ".csv" in any case
EndsInTableExt(arg) ==
    /\ Len(arg) >= 4
    /\ \A i \in 1..4 : Lower(<<arg[Len(arg) - 4 + i]>>) = <<CSV_EXT[i]>>

C8_ModeOfArguments ==
    /\ mode \in {"NONE", "INJECT", "HARVEST", "UNRECOGNIZED"}
    /\ mode = "NONE" <=> main_pc = "start"
    /\ mode = "INJECT" => EndsInTableExt(arg1)
    /\ mode = "HARVEST" => EndsInTableExt(arg2) /\ ~EndsInTableExt(arg1)
    /\ mode = "UNRECOGNIZED" =>
           /\ ~EndsInTableExt(arg1) /\ ~EndsInTableExt(arg2)
           /\ GPS_TABLE = <<>>
           /\ PHOTO_QUEUE = <<>> /\ unfinished_tasks = 0
           /\ thread_list = 0 /\ pool = EmptyBag
           /\ exif = initial.exif /\ backup = {}
           /\ store = initial.store
           /\ \A p \in Photos : rec[p] = NoCalls

\* C8: the above in every state, and the mode, once chosen, stays
C8_ModeSelection ==
    /\ []C8_ModeOfArguments
    /\ [][mode # "NONE" => mode' = mode]_vars

\* C8 witness: an UNRECOGNIZED run has ended
C8_Witness ==
    /\ mode = "UNRECOGNIZED"
    /\ main_pc = "done"
    /\ arg1 = P_DIR

\* ------------------------------------------------------------------------
\* C9: in HARVEST mode, once the barrier is passed, the table holds exactly
\* the records of the enqueued photos whose read succeeded with latitude and
\* longitude present, a zero timestamp or coordinate counting as present.
\* Violated: the truth test of read_worker drops a record whose timestamp or
\* coordinate is a numeric 0.
\* ------------------------------------------------------------------------
C9_HarvestComplete ==
    (mode = "HARVEST" /\ main_pc \in {"thread_join", "write_gps_csv", "done"})
    => Range(GPS_TABLE) =
           {ReadPhotoGps(initial.exif[p]) : p \in {q \in Enqueued : HadGps(q)}}

\* ------------------------------------------------------------------------
\* C10: persisting at the end of a HARVEST run keeps the prior rows of the
\* store as a prefix and appends exactly one row per distinct sample
\* harvested in the run; the prior rows are never read into the table.
\* ------------------------------------------------------------------------
Harvested ==
    {ReadPhotoGps(initial.exif[p]) : p \in {q \in Photos : rec[q].appends > 0}}

C10_PersistAppends ==
    mode = "HARVEST" =>
        /\ Range(GPS_TABLE) = Harvested
        /\ IF main_pc = "done"
           THEN /\ Len(store) = Len(initial.store) + Cardinality(Harvested)
                /\ SubSeq(store, 1, Len(initial.store)) = initial.store
                /\ {store[i] : i \in (Len(initial.store) + 1)..Len(store)}
                       = {FormatRow(r) : r \in Harvested}
           ELSE store = initial.store

\* C10 witness: two photos gave the same sample, persisted once after the
\* prior rows
C10_Witness ==
    /\ mode = "HARVEST"
    /\ main_pc = "done"
    /\ initial.store # <<>>
    /\ rec[P_A].appends > 0
    /\ rec[P_B].appends > 0
    /\ initial.exif[P_A] = initial.exif[P_B]
    /\ Len(store) = Len(initial.store) + 1

\* ------------------------------------------------------------------------
\* C11 as stated: loading a file and persisting the table to a new file
\* gives rows whose set is the set of the parsable rows of the input, each
\* once.
\* Violated: the timestamp cell is written as str(float(cell)): the row
\* 0,35.0,139.0,10 comes back as 0.0,35.0,139.0,10.
\* ------------------------------------------------------------------------
\* the rows of a file that load_gps_csv can parse
ParsableRows(rows) == {rows[i] : i \in {j \in 1..Len(rows) : RowParses(rows[j])}}

\* (timestamp as a number, latitude, longitude, altitude) of a parsable row
SampleOf(row) == <<FloatOf[row[1]], row[2], row[3], row[4]>>

C11_RowsKept ==
    main_pc = "done" =>
        /\ Range(store) = ParsableRows(initial.store)
        /\ Len(store) = Cardinality(Range(store))

\* C11 amended: the rows persisted are parsable, their samples are the
\* samples of the parsable rows of the input, each distinct sample on one
\* row, with the latitude, longitude and altitude cells of an input row and
\* the timestamp cell written as str() of its float; an unparsable row
\* changes nothing of what the rows before and after it give.
C11_SamplesKept ==
    LET samples == {SampleOf(r) : r \in ParsableRows(initial.store)}
    IN  /\ main_pc # "load_gps_csv" =>
               {<<r[1], r[2].s, r[3].s, r[4].s>> : r \in Range(GPS_TABLE)} = samples
        /\ main_pc = "done" =>
               /\ \A i \in 1..Len(store) :
                      /\ RowParses(store[i])
                      /\ store[i][1] = FloatRepr[FloatOf[store[i][1]]]
               /\ {SampleOf(store[i]) : i \in 1..Len(store)} = samples
               /\ Len(store) = Cardinality(samples)

\* C11 witness: a header stood between two parsable rows, of which the first
\* had its timestamp written without a fraction; both rows were persisted
C11_Witness ==
    /\ main_pc = "done"
    /\ Len(initial.store) = 3
    /\ initial.store[1] = Rows[1]
    /\ ~RowParses(initial.store[2])
    /\ initial.store[3] = Rows[3]
    /\ Len(store) = 2

\* ------------------------------------------------------------------------
\* C12: the step in which main() classifies the photo argument leaves in the
\* queue the regular files found (the file itself, or the files of the
\* directory walked) that are eligible, each once, and no other path; no
\* other step puts a path on the queue.  A file is eligible iff its
\* lowercased path ends with an extension of EXT and "thumb" occurs nowhere
\* in it, whatever the case.
\* ------------------------------------------------------------------------
\* the photo argument of the run
PhotosPath == IF mode = "INJECT" THEN arg2 ELSE arg1

\* the regular files found under the photo argument
Discovered ==
    IF IsFile(PhotosPath) THEN {PhotosPath}
    ELSE IF IsDir(PhotosPath) THEN Range(WalkOrder)
    ELSE {}

EligibleAsStated(path) ==
    /\ \E ext \in EXT :
           /\ Len(ext) <= Len(path)
           /\ \A i \in 1..Len(ext) :
                  Lower(<<path[Len(path) - Len(ext) + i]>>) = <<ext[i]>>
    /\ ~\E k \in 0..(Len(path) - 5) :
           \A i \in 1..5 : Lower(<<path[k + i]>>) = <<THUMB[i]>>

\* how many times the path is in the queue
TimesQueued(path) ==
    Cardinality({i \in 1..Len(PHOTO_QUEUE) : PHOTO_QUEUE[i] = path})

C12_QueueHoldsEligible ==
    /\ [][main_pc = "loop_file" =>
             LET eligible == {f \in Discovered : EligibleAsStated(f)}
             IN  /\ Range(PHOTO_QUEUE') = eligible
                 /\ Len(PHOTO_QUEUE') = Cardinality(eligible)]_vars
    /\ [][main_pc # "loop_file" =>
             \/ PHOTO_QUEUE' = PHOTO_QUEUE
             \/ PHOTO_QUEUE # <<>> /\ PHOTO_QUEUE' = Tail(PHOTO_QUEUE)]_vars

\* C12 witness: a directory was walked; of its four files the two eligible
\* ones are in the queue, the thumbnail and the text file are not
C12_Witness ==
    /\ mode = "HARVEST"
    /\ arg1 = P_DIR
    /\ main_pc = "spawn"
    /\ PHOTO_QUEUE = <<P_A, P_B>>
    /\ P_THUMB \in Discovered
    /\ P_TXT \in Discovered

\* ------------------------------------------------------------------------
\* C13: in every state of a run, in INJECT and in HARVEST mode, GPS_TABLE
\* holds no two samples equal as (timestamp, latitude, longitude, altitude).
\* Violated: in HARVEST mode GPS_TABLE is the list read_worker appends to;
\* two photos with the same record leave it with two equal members until
\* write_gps_csv makes a set of it.
\* ------------------------------------------------------------------------
C13_NoDuplicates ==
    \A i, j \in 1..Len(GPS_TABLE) : GPS_TABLE[i] = GPS_TABLE[j] => i = j

\* ------------------------------------------------------------------------
\* C14: for every pool of N >= 1 workers and every interleaving, no path is
\* taken from the queue by two workers, processed twice or marked done
\* twice; a path taken is held by one worker until it has been processed
\* once and marked done once, also when its processing raised; and main() is
\* past PHOTO_QUEUE.join() only in states where every path put on the queue
\* was taken, processed and marked done, once each.
\* ------------------------------------------------------------------------
\* the threads that hold the path
Holders(path) == {t \in Threads : t.photo_path = path}

PastBarrier == main_pc \in {"thread_join", "write_gps_csv", "done"}

AllWorkDone ==
    /\ unfinished_tasks = 0
    /\ PHOTO_QUEUE = <<>>
    /\ \A path \in Photos : rec[path].taken = rec[path].done
    /\ thread_list = threads
    /\ BagCardinality(pool) = threads
    /\ \A t \in Threads : t.pc = "exited"

C15_PersistLast ==
    /\ [](mode = "INJECT" => store = initial.store /\ main_pc # "write_gps_csv")
    /\ [](main_pc = "write_gps_csv" => mode = "HARVEST" /\ AllWorkDone)
    /\ [][store' # store => main_pc = "write_gps_csv" /\ main_pc' = "done"]_vars
    /\ [][(main_pc = "write_gps_csv" \/ main_pc = "done") =>
             (/\ Range(GPS_TABLE') = Range(GPS_TABLE)
              /\ Len(GPS_TABLE') <= Len(GPS_TABLE)
              /\ pool' = pool)]_vars

\* C15 witness: a HARVEST run with two workers has persisted two samples
C15_Witness ==
    /\ mode = "HARVEST"
    /\ main_pc = "done"
    /\ threads = 2
    /\ AllWorkDone
    /\ Len(store) = Len(initial.store) + 2

\* ------------------------------------------------------------------------
\* C16: a photo whose metadata read fails changes nothing, in either mode:
\* for it there is no lookup, no geocoding, no set_tags call and no append to
\* GPS_TABLE, its file and the store stay as they were, and the step that
\* processes it ends without an exception, so that its worker marks the task
\* done and takes the next one.
\* ------------------------------------------------------------------------
\* the read of the photo fails
ReadFails(path) == ~initial.exif[path].ok

\* thread t processes the photo it holds in this step
Processes(t) ==
    /\ t.pc \in {"write_photo_gps", "read_photo_gps"}
    /\ rec'[t.photo_path].reads = rec[t.photo_path].reads + 1

C16_ReadFailureNoOp ==
    /\ [](\A path \in Photos :
             ReadFails(path) =>
                 /\ rec[path].lookups = <<>>
                 /\ rec[path].geocodes = 0
                 /\ rec[path].writes = <<>>
                 /\ rec[path].appends = 0
                 /\ exif[path] = initial.exif[path]
                 /\ path \notin backup)
    /\ [][\A t \in Threads :
             (Processes(t) /\ ReadFails(t.photo_path)) =>
                 /\ UNCHANGED <<GPS_TABLE, store, exif, backup>>
                 /\ pool' = Moved(t, Frame("task_done", t.photo_path, FALSE))]_vars
    /\ [][\A t \in Threads :
             (t.pc = "task_done" /\ ReadFails(t.photo_path)
                 /\ rec'[t.photo_path].done = rec[t.photo_path].done + 1) =>
                 pool' = Moved(t, Frame("get", <<>>, FALSE))]_vars

\* C16 witness: the only worker processed a photo whose read failed, marked
\* it done and took the next photo
C16_Witness ==
    /\ threads = 1
    /\ ReadFails(P_A)
    /\ rec[P_A].reads = 1
    /\ rec[P_A].done = 1
    /\ rec[P_B].taken = 1

\* ------------------------------------------------------------------------
\* C17: write_photo_gps tests the threshold before it calls the geocoder:
\* for a photo whose nearest row is more than 3600 s away gps_to_address is
\* never called, and the photo's worker does not end on its account.
\* Violated: gps_to_address(lat, lon) is called before "if min_diff > 3600";
\* the geocoder runs for a photo that is then rejected, and its exception
\* ends the worker.
\* ------------------------------------------------------------------------
C17_ThresholdBeforeGeocoding ==
    /\ \A path \in Photos :
           \A k \in 1..Len(rec[path].lookups) :
               rec[path].lookups[k].found[1] > THRESHOLD => rec[path].geocodes = 0
    /\ \A t \in Threads :
           (/\ t.pc = "task_done"
            /\ rec[t.photo_path].lookups # <<>>
            /\ rec[t.photo_path].lookups[1].found[1] > THRESHOLD)
           => ~t.raised

\* ------------------------------------------------------------------------
\* C18: in INJECT mode, when the geocoder and set_tags never fail and no two
\* rows of the loaded table are at the same distance from a photo's
\* timestamp, a run with N >= 1 workers leaves every enqueued photo in the
\* state that write_photo_gps gives it from its own metadata and the table,
\* whatever N and the interleaving.
\* Violated: float() of an empty latitude cell raises in write_photo_gps and
\* ends the worker; with one worker the photos still in the queue are never
\* processed, with two they are.
\* ------------------------------------------------------------------------
\* no two rows of the table are equally far from the timestamp
NoTies(timestamp, table) ==
    \A i, j \in 1..Len(table) :
        AbsDiff(timestamp, table[i][1]) = AbsDiff(timestamp, table[j][1]) => i = j

\* the metadata write_photo_gps leaves in the photo when nothing fails
Outcome(path) ==
    LET r == WritePhotoGps(initial.exif[path], GPS_TABLE, OVERWRITE, "ok", "ok")
    IN  IF r.stored THEN SetTags(initial.exif[path], r.writes[1].tags)
        ELSE initial.exif[path]

C18_SameOutcome ==
    (/\ mode = "INJECT"
     /\ threads >= 1
     /\ main_pc \notin {"start", "load_gps_csv", "loop_file"}
     /\ ~ENABLED NextReliable
     /\ \A path \in Photos : NoTies(initial.exif[path].ts, GPS_TABLE))
    => \A path \in Enqueued : exif[path] = Outcome(path)

\* ------------------------------------------------------------------------
\* C19: when the geocoder and set_tags never fail, a run with any N >= 0
\* workers goes on until main() has passed the barrier and ended: a state in
\* which nothing can move is the end of main().
\* Violated: with --threads 0 no worker is started, nothing takes the paths
\* from the queue and PHOTO_QUEUE.join() never returns.
\* ------------------------------------------------------------------------
C19_RunEndsForAnyN ==
    main_pc = "done" \/ ENABLED NextReliable

====
